---- MODULE Spec2Model ----
(***************************************************************************)
(* primeutil (src/index.js): a memoized, resizable prime sieve and the     *)
(* queries built on it.                                                    *)
(*                                                                         *)
(* How the source is read.  src/index.js does not parse as written; the    *)
(* model takes every statement as the text has it and repairs only what    *)
(* stops it from parsing or resolving a name:                              *)
(*   line 62   for ( var prime = 0, prime <= length, i++)                  *)
(*             the clause separators are read as `;`, the undeclared       *)
(*             `length` as the sieve's length after the push (equal to     *)
(*             `max`, which the comment on line 70 names as the bound),    *)
(*             and the undeclared `i` as the loop variable `prime`;        *)
(*   line 100  `listprimes(max)` is the exported `listPrimes`, and the     *)
(*             undeclared `num` on line 108 is its parameter;              *)
(*   line 111  `fuction` is `function`.                                    *)
(* The initial value 0 of `prime`, the comparisons and the arithmetic are  *)
(* the source's.  With prime = 0 the inner loop of lines 73-79 starts at   *)
(* multiple = 0 and steps by 0, so once it is entered it never ends: the   *)
(* call does not return.  The model records that outcome as pc =           *)
(* "diverged".                                                             *)
(*                                                                         *)
(* JavaScript values are records [t, n]: numbers, booleans, undefined,     *)
(* NaN and the two infinities.                                             *)
(***************************************************************************)
EXTENDS Integers, Sequences, FiniteSets

VARIABLES sieve, pc, call, ret, held

vars == <<sieve, pc, call, ret, held>>

\* Largest argument of a call.
MaxN == 5

\* Longest array a caller builds by writing to the one it was handed.
MaxWrite == 2

\* Arguments go down to -MaxNeg: the functions take any number (no check of
\* the argument on lines 22-28, 100-108, 111-114, 124-125).
MaxNeg == 1

----------------------------------------------------------------------------
(* JavaScript values *)

Num(k) == [t |-> "number", n |-> k]
Bool(b) == [t |-> "boolean", n |-> IF b THEN 1 ELSE 0]
Undefined == [t |-> "undefined", n |-> 0]
NaN == [t |-> "NaN", n |-> 0]
PosInfinity == [t |-> "Infinity", n |-> 1]
NegInfinity == [t |-> "Infinity", n |-> -1]
\* {[index]: each}, the one-key object of getLabeledSieve
Labeled(index, each) == [t |-> IF each THEN "{true}" ELSE "{false}", n |-> index]

\* ToBoolean: false, 0, NaN and undefined are falsy
Truthy(v) ==
    CASE v.t = "boolean" -> v.n = 1
      [] v.t = "number" -> v.n # 0
      [] v.t = "Infinity" -> TRUE
      [] OTHER -> FALSE

\* a < b on numbers; any comparison with NaN is false
NumLt(a, b) ==
    CASE a.t = "NaN" \/ b.t = "NaN" -> FALSE
      [] a.t = "Infinity" /\ b.t = "Infinity" -> a.n < b.n
      [] a.t = "Infinity" -> a.n < 0
      [] b.t = "Infinity" -> b.n > 0
      [] OTHER -> a.n < b.n

\* v == false (line 130, 131): isPrime yields a boolean or undefined, and
\* undefined == false is false
LooseEqFalse(v) == v.t = "boolean" /\ v.n = 0

\* arr[i] of an array of booleans; an index outside it reads undefined
Index(arr, i) == IF i >= 0 /\ i < Len(arr) THEN Bool(arr[i + 1]) ELSE Undefined

\* the table handed out itself, not a copy of it
SliceAlias(arr, end) == [alias |-> TRUE, a |-> arr]

\* arr.slice(0, end): a new array holding the first `end` entries (a negative
\* end counts from the back)
Slice(arr, end) ==
    LET e == IF end < 0 THEN (IF Len(arr) + end < 0 THEN 0 ELSE Len(arr) + end)
             ELSE (IF end > Len(arr) THEN Len(arr) ELSE end)
    IN [alias |-> FALSE, a |-> SubSeq(arr, 1, e)]

----------------------------------------------------------------------------
(* getSieve, lines 22-84 *)

\* new Array(k).join(',').split(',').map(() => true): k-1 commas split into
\* k pieces; for k = 0 the empty string still splits into one piece
freshSieve(k) == [i \in 1..(IF k = 0 THEN 1 ELSE k) |-> TRUE]

\* lines 73-79 for prime > 0
RECURSIVE MarkMultiples(_, _, _, _)
MarkMultiples(s, multiple, prime, length) ==
    IF multiple < length
    THEN MarkMultiples([s EXCEPT ![multiple + 1] = FALSE], multiple + prime, prime, length)
    ELSE s

\* lines 62-81: the outer loop from `prime` on.  diverges: the inner loop
\* was entered with prime = 0.
RECURSIVE SievePass(_, _, _)
SievePass(s, prime, length) ==
    IF ~(prime <= length) THEN [s |-> s, diverges |-> FALSE]
    ELSE IF Truthy(Index(s, prime))
    THEN IF prime = 0
         THEN IF prime * prime < length
              THEN [s |-> [s EXCEPT ![1] = FALSE], diverges |-> TRUE]
              ELSE SievePass(s, prime + 1, length)
         ELSE SievePass(MarkMultiples(s, prime * prime, prime, length), prime + 1, length)
    ELSE SievePass(s, prime + 1, length)

\* lines 73-79 for prime > 0: the indices line 78 assigns
MultiplesWritten(prime, length) ==
    {m \in 0..(length - 1) : m >= prime * prime /\ (m - prime * prime) % prime = 0}

\* lines 62-81: the indices the pass assigns (with prime = 0, index 0 again
\* and again)
RECURSIVE PassWrites(_, _, _)
PassWrites(s, prime, length) ==
    IF ~(prime <= length) THEN {}
    ELSE IF Truthy(Index(s, prime))
    THEN IF prime = 0
         THEN IF prime * prime < length THEN {0}
              ELSE PassWrites(s, prime + 1, length)
         ELSE MultiplesWritten(prime, length)
              \cup PassWrites(MarkMultiples(s, prime * prime, prime, length), prime + 1, length)
    ELSE PassWrites(s, prime + 1, length)

\* getSieve with line 28 comparing by > : a request for exactly the capacity
\* goes on to grow the table
getSieveStrict(s, max) ==
    IF Len(s) > max
    THEN [s |-> s, diverges |-> FALSE, out |-> Slice(s, max)]
    ELSE LET pushed == s \o freshSieve(max - Len(s))
             pass == SievePass(pushed, 0, Len(pushed))
         IN [s |-> pass.s, diverges |-> pass.diverges, out |-> Slice(pass.s, max)]

\* the whole function: the table it leaves, the array it returns
getSieve(s, max) ==
    IF Len(s) >= max
    THEN [s |-> s, diverges |-> FALSE, out |-> Slice(s, max)]
    ELSE LET pushed == s \o freshSieve(max - Len(s))
             pass == SievePass(pushed, 0, Len(pushed))
         IN [s |-> pass.s, diverges |-> pass.diverges, out |-> Slice(pass.s, max)]

----------------------------------------------------------------------------
(* isPrime, lines 111-122 *)

isPrime(s, num) ==
    IF Len(s) >= num
    THEN [s |-> s, diverges |-> FALSE, v |-> Index(s, num)]
    ELSE LET g == getSieve(s, num)
         IN [s |-> g.s, diverges |-> g.diverges, v |-> Index(g.out.a, num)]

----------------------------------------------------------------------------
(* nearestPrime, lines 124-143 *)

\* line 130
RECURSIVE ScanUp(_, _, _)
ScanUp(s, nextPrime, max) ==
    IF ~NumLt(Num(nextPrime), max) THEN [s |-> s, diverges |-> FALSE, c |-> nextPrime]
    ELSE LET r == isPrime(s, nextPrime)
         IN IF r.diverges THEN [s |-> r.s, diverges |-> TRUE, c |-> nextPrime]
            ELSE IF LooseEqFalse(r.v) THEN ScanUp(r.s, nextPrime + 1, max)
            ELSE [s |-> r.s, diverges |-> FALSE, c |-> nextPrime]

\* line 131
RECURSIVE ScanDown(_, _, _)
ScanDown(s, prevPrime, min) ==
    IF ~NumLt(min, Num(prevPrime)) THEN [s |-> s, diverges |-> FALSE, c |-> prevPrime]
    ELSE LET r == isPrime(s, prevPrime)
         IN IF r.diverges THEN [s |-> r.s, diverges |-> TRUE, c |-> prevPrime]
            ELSE IF LooseEqFalse(r.v) THEN ScanDown(r.s, prevPrime - 1, min)
            ELSE [s |-> r.s, diverges |-> FALSE, c |-> prevPrime]

\* lines 138-142
Choose(num, nextPrime, prevPrime) ==
    IF Truthy(prevPrime) /\ ~Truthy(nextPrime) THEN prevPrime
    ELSE IF Truthy(nextPrime) /\ ~Truthy(prevPrime) THEN nextPrime
    ELSE IF ~Truthy(nextPrime) /\ ~Truthy(prevPrime) THEN NaN
    ELSE IF nextPrime.n - num > num - prevPrime.n THEN nextPrime
    ELSE prevPrime

nearestPrime(s, num, min, max) ==
    LET first == isPrime(s, num) IN
    IF first.diverges THEN [s |-> first.s, diverges |-> TRUE, v |-> Undefined]
    ELSE IF Truthy(first.v) THEN [s |-> first.s, diverges |-> FALSE, v |-> Num(num)]
    ELSE LET up == ScanUp(first.s, num, max) IN
    IF up.diverges THEN [s |-> up.s, diverges |-> TRUE, v |-> Undefined]
    ELSE LET down == ScanDown(up.s, num, min) IN
    IF down.diverges THEN [s |-> down.s, diverges |-> TRUE, v |-> Undefined]
    ELSE LET nextPrime == Num(up.c)
             \* line 135 assigns prevPrime, not nextPrime
             prev135 == IF NumLt(max, nextPrime) THEN NaN ELSE Num(down.c)
             prevPrime == IF NumLt(prev135, min) THEN NaN ELSE prev135
         IN [s |-> down.s, diverges |-> FALSE, v |-> Choose(num, nextPrime, prevPrime)]

----------------------------------------------------------------------------
(* The state machine: one action per function a caller invokes *)

NoArray == [alias |-> FALSE, a |-> <<>>]
NoCall == [op |-> "none", num |-> 0, min |-> NegInfinity, max |-> PosInfinity]
NoRet == [kind |-> "none", v |-> Undefined, a |-> <<>>]
Diverges == [kind |-> "diverges", v |-> Undefined, a |-> <<>>]
Value(v) == [kind |-> "value", v |-> v, a |-> <<>>]
Array(a) == [kind |-> "array", v |-> Undefined, a |-> a]
\* a RangeError out of line 42 or 43
Throws == [kind |-> "throws", v |-> Undefined, a |-> <<>>]

Arguments == (-MaxNeg)..MaxN
Mins == {NegInfinity} \cup {Num(k) : k \in 0..MaxN}
Maxs == {PosInfinity} \cup {Num(k) : k \in 0..MaxN}

Init ==
    /\ sieve = <<>>
    /\ pc = "ready"
    /\ call = NoCall
    /\ ret = NoRet
    /\ held = NoArray

Finish(diverges) == pc' = IF diverges THEN "diverged" ELSE "ready"

GetSieve(max) ==
    /\ pc = "ready"
    /\ LET g == getSieve(sieve, max) IN
        /\ sieve' = g.s
        /\ Finish(g.diverges)
        /\ call' = [op |-> "getSieve", num |-> max, min |-> NegInfinity, max |-> PosInfinity]
        /\ ret' = IF g.diverges THEN Diverges
                  ELSE Array([i \in 1..Len(g.out.a) |-> Bool(g.out.a[i])])
        /\ held' = IF g.diverges THEN held ELSE g.out

\* the push done, and the exception after it
GetSieveThrowsAfterPush(max) ==
    /\ pc = "ready"
    /\ Len(sieve) < max
    /\ sieve' = sieve \o freshSieve(max - Len(sieve))
    /\ call' = [op |-> "getSieve", num |-> max, min |-> NegInfinity, max |-> PosInfinity]
    /\ ret' = Throws
    /\ UNCHANGED <<pc, held>>

\* getSieve failing for want of memory.  The statements of getSieve that can
\* throw are new Array(..).join(..) on line 42 (RangeError: invalid array or
\* string length) and the spread call on line 43 (RangeError before push
\* runs): both come before the table is touched.  The assignments of the
\* pass (line 78) are within the array and cannot throw.
GetSieveThrows(max) ==
    /\ pc = "ready"
    /\ Len(sieve) < max
    /\ call' = [op |-> "getSieve", num |-> max, min |-> NegInfinity, max |-> PosInfinity]
    /\ ret' = Throws
    /\ UNCHANGED <<sieve, pc, held>>

\* line 97
GetLabeledSieve(num) ==
    /\ pc = "ready"
    /\ LET g == getSieve(sieve, num) IN
        /\ sieve' = g.s
        /\ Finish(g.diverges)
        /\ call' = [op |-> "getLabeledSieve", num |-> num, min |-> NegInfinity, max |-> PosInfinity]
        /\ ret' = IF g.diverges THEN Diverges
                  ELSE Array([i \in 1..Len(g.out.a) |-> Labeled(i - 1, g.out.a[i])])
        /\ UNCHANGED held

\* line 108: each && index, then filter(Boolean) drops false and 0
RECURSIVE FilterBoolean(_)
FilterBoolean(a) ==
    IF a = <<>> THEN <<>>
    ELSE IF Truthy(Head(a)) THEN <<Head(a)>> \o FilterBoolean(Tail(a))
    ELSE FilterBoolean(Tail(a))

listprimes(s, max) ==
    LET g == getSieve(s, max) IN
    [s |-> g.s, diverges |-> g.diverges,
     a |-> FilterBoolean([i \in 1..Len(g.out.a) |->
                            IF g.out.a[i] THEN Num(i - 1) ELSE Bool(FALSE)])]

ListPrimes(max) ==
    /\ pc = "ready"
    /\ LET l == listprimes(sieve, max) IN
        /\ sieve' = l.s
        /\ Finish(l.diverges)
        /\ call' = [op |-> "listPrimes", num |-> max, min |-> NegInfinity, max |-> PosInfinity]
        /\ ret' = IF l.diverges THEN Diverges ELSE Array(l.a)
        /\ UNCHANGED held

\* isPrime answered while another call is still inside getSieve
IsPrimeUnguarded(num) ==
    LET r == isPrime(sieve, num) IN
        /\ sieve' = r.s
        /\ pc' = IF r.diverges THEN "diverged" ELSE pc
        /\ call' = [op |-> "isPrime", num |-> num, min |-> NegInfinity, max |-> PosInfinity]
        /\ ret' = IF r.diverges THEN Diverges ELSE Value(r.v)
        /\ UNCHANGED held

\* A call runs to its end before the next one starts (pc = "ready"): the
\* functions are synchronous and nothing in them yields.
IsPrime(num) ==
    /\ pc = "ready"
    /\ LET r == isPrime(sieve, num) IN
        /\ sieve' = r.s
        /\ Finish(r.diverges)
        /\ call' = [op |-> "isPrime", num |-> num, min |-> NegInfinity, max |-> PosInfinity]
        /\ ret' = IF r.diverges THEN Diverges ELSE Value(r.v)
        /\ UNCHANGED held

NearestPrime(num, min, max) ==
    /\ pc = "ready"
    /\ LET r == nearestPrime(sieve, num, min, max) IN
        /\ sieve' = r.s
        /\ Finish(r.diverges)
        /\ call' = [op |-> "nearestPrime", num |-> num, min |-> min, max |-> max]
        /\ ret' = IF r.diverges THEN Diverges ELSE Value(r.v)
        /\ UNCHANGED held

\* The caller assigns held[i] = b on the array its last getSieve returned
\* (i = length appends).  The write reaches the table only if that array is
\* the table itself.
CallerWrite(i, b) ==
    /\ pc = "ready"
    /\ call.op \in {"getSieve", "callerWrite"}
    /\ ret.kind = "array"
    /\ i <= Len(held.a)
    /\ LET written == IF i < Len(held.a) THEN [held.a EXCEPT ![i + 1] = b]
                      ELSE Append(held.a, b)
       IN /\ held' = [held EXCEPT !.a = written]
          /\ sieve' = IF held.alias THEN written ELSE sieve
    /\ call' = [op |-> "callerWrite", num |-> i, min |-> NegInfinity, max |-> PosInfinity]
    /\ UNCHANGED <<pc, ret>>

\* The caller removes the last entry of that array (pop, or length - 1).
CallerPop ==
    /\ pc = "ready"
    /\ call.op \in {"getSieve", "callerWrite"}
    /\ ret.kind = "array"
    /\ held.a # <<>>
    /\ LET written == SubSeq(held.a, 1, Len(held.a) - 1)
       IN /\ held' = [held EXCEPT !.a = written]
          /\ sieve' = IF held.alias THEN written ELSE sieve
    /\ call' = [op |-> "callerWrite", num |-> Len(held.a) - 1,
                min |-> NegInfinity, max |-> PosInfinity]
    /\ UNCHANGED <<pc, ret>>

\* lines 73-79 with prime = 0: one more turn of the loop that never ends
Spin ==
    /\ pc = "diverged"
    /\ sieve' = [sieve EXCEPT ![1] = FALSE]
    /\ UNCHANGED <<pc, call, ret, held>>

Next ==
    \/ \E max \in Arguments : GetSieve(max)
    \/ \E num \in Arguments : GetLabeledSieve(num)
    \/ \E max \in Arguments : ListPrimes(max)
    \/ \E num \in Arguments : IsPrime(num)
    \/ \E num \in Arguments, min \in Mins, max \in Maxs : NearestPrime(num, min, max)
    \/ \E max \in Arguments : GetSieveThrows(max)
    \/ \E i \in 0..(MaxWrite - 1), b \in BOOLEAN : CallerWrite(i, b)
    \/ CallerPop
    \/ Spin

Spec == Init /\ [][Next]_vars

----------------------------------------------------------------------------
(* What the queries are specified to compute *)

\* n >= 2 with no divisor in [2, n)
IsPrimeNumber(n) == n >= 2 /\ \A d \in 2..(n - 1) : n % d # 0

RECURSIVE PrimesBelow(_)
PrimesBelow(n) ==
    IF n <= 0 THEN <<>>
    ELSE IF IsPrimeNumber(n - 1) THEN Append(PrimesBelow(n - 1), Num(n - 1))
    ELSE PrimesBelow(n - 1)

\* the first prime above n (there is one in (n, 2n + 3])
PrimeAbove(n) ==
    CHOOSE p \in (n + 1)..(2 * n + 3) :
        IsPrimeNumber(p) /\ \A q \in (n + 1)..(p - 1) : ~IsPrimeNumber(q)

HasPrimeBelow(n) == \E p \in 2..(n - 1) : IsPrimeNumber(p)

\* the first prime below n, when there is one
PrimeBelow(n) ==
    CHOOSE p \in 2..(n - 1) :
        IsPrimeNumber(p) /\ \A q \in (p + 1)..(n - 1) : ~IsPrimeNumber(q)

\* the candidates of a search from n within [min, max]
HasUp(n, max) == ~NumLt(max, Num(PrimeAbove(n)))
HasDown(n, min) == HasPrimeBelow(n) /\ ~NumLt(Num(PrimeBelow(n)), min)

\* some prime lies in [min, max]
HasPrimeIn(min, max) ==
    \/ max = PosInfinity
    \/ max.t = "number" /\ \E p \in 2..max.n : IsPrimeNumber(p) /\ ~NumLt(Num(p), min)

Returned == pc = "ready"

----------------------------------------------------------------------------
(* The claims *)

\* C1: isPrime(n), for every n >= 0 and every table a sequence of calls
\* leaves, returns true exactly when n >= 2 has no divisor in [2, n), and
\* false otherwise; never an undefined value.
C1_IsPrimeDecides ==
    (call.op = "isPrime" /\ call.num >= 0) => ret = Value(Bool(IsPrimeNumber(call.num)))

\* C2: after any sequence of getSieve calls each call has completed and, for
\* every index i with 2 <= i < capacity, sieve[i] is true iff i has no
\* divisor in [2, i).
C2_TableInvariant ==
    call.op = "getSieve" =>
        /\ Returned
        /\ \A i \in 2..(Len(sieve) - 1) : sieve[i + 1] <=> IsPrimeNumber(i)

\* C3: whenever capacity > 0 the entry at index 0 is false, whenever
\* capacity > 1 the entry at index 1 is false, and getSieve(1) returns
\* [false].
C3_ZeroAndOneNotPrime ==
    /\ Len(sieve) > 0 => ~sieve[1]
    /\ Len(sieve) > 1 => ~sieve[2]
    /\ (call.op = "getSieve" /\ call.num = 1 /\ ret # Throws)
            => ret = Array(<<Bool(FALSE)>>)

\* C4: listPrimes(n) returns the ascending sequence of exactly the primes
\* below n (empty when n <= 2).
C4_ListPrimesExact ==
    (call.op = "listPrimes" /\ call.num >= 0) => ret = Array(PrimesBelow(call.num))

\* C5: for a non-prime n with a candidate on both sides within the bounds,
\* nearestPrime returns the nearer one, and the lower one on a tie.
C5_NearerOfTwo ==
    (/\ call.op = "nearestPrime"
     /\ call.num >= 0
     /\ ~IsPrimeNumber(call.num)
     /\ HasUp(call.num, call.max)
     /\ HasDown(call.num, call.min))
    => LET u == PrimeAbove(call.num)
           d == PrimeBelow(call.num)
       IN ret = Value(Num(IF u - call.num < call.num - d THEN u ELSE d))

\* C6: for a non-prime n and min <= max, nearestPrime returns NoneFound or
\* a prime p with min <= p <= max, and NoneFound whenever no prime lies in
\* [min, max].
C6_PrimeInBoundsOrNone ==
    (/\ call.op = "nearestPrime"
     /\ call.num >= 0
     /\ ~IsPrimeNumber(call.num)
     /\ ~NumLt(call.max, call.min))
    => /\ ret.kind = "value" =>
            \/ ret.v = NaN
            \/ /\ ret.v.t = "number"
               /\ IsPrimeNumber(ret.v.n)
               /\ ~NumLt(ret.v, call.min)
               /\ ~NumLt(call.max, ret.v)
       /\ ~HasPrimeIn(call.min, call.max) => ret = Value(NaN)

\* C7: for a non-prime n with a candidate on exactly one side within the
\* bounds, nearestPrime returns that candidate (nearestPrime(0) and
\* nearestPrime(1) return 2).
C7_OnlyCandidate ==
    (/\ call.op = "nearestPrime"
     /\ call.num >= 0
     /\ ~IsPrimeNumber(call.num)
     /\ HasUp(call.num, call.max) # HasDown(call.num, call.min))
    => ret = Value(Num(IF HasUp(call.num, call.max) THEN PrimeAbove(call.num)
                       ELSE PrimeBelow(call.num)))

\* C8: for a prime n, nearestPrime(n, min, max) returns n whatever the
\* bounds and the table's capacity.
C8_PrimeReturnsItself ==
    (call.op = "nearestPrime" /\ IsPrimeNumber(call.num)) => ret = Value(Num(call.num))

\* C9: a getSieve(n2) that follows a getSieve(n1) with n1 < n2 returns a
\* sequence whose first n1 entries are the sequence getSieve(n1) returned.
C9_MonotonicExtension ==
    [][(/\ call.op = "getSieve" /\ ret.kind = "array"
        /\ call'.op = "getSieve" /\ call.num < call'.num /\ ret' # Throws)
       => (ret'.kind = "array" /\ SubSeq(ret'.a, 1, call.num) = ret.a)]_vars

\* C10: a caller's write to the sequence getSieve returned leaves the shared
\* table as it was.
C10_CopyIsolation == [][call'.op = "callerWrite" => sieve' = sieve]_vars

\* C10's case: the caller has written to the returned sequence, which now
\* differs from the table.
C10_Witness == call.op = "callerWrite" /\ held.a # sieve

\* C11: getSieve(n), n >= 0, returns a sequence of exactly n entries and
\* leaves the capacity at n or more, whatever the capacity was.
C11_LengthAndCapacity ==
    (call.op = "getSieve" /\ call.num >= 0 /\ ret # Throws)
    => (ret.kind = "array" /\ Len(ret.a) = call.num /\ Len(sieve) >= call.num)

\* C12: getSieve, listPrimes and isPrime with n < 0, and nearestPrime with
\* min > max, end in an InvalidArgument error and leave the table as it was.
C12_RejectsOutOfDomain ==
    [][(/\ pc = "ready"
        /\ \/ call'.op \in {"getSieve", "listPrimes", "isPrime"} /\ call'.num < 0
           \/ call'.op = "nearestPrime" /\ NumLt(call'.max, call'.min))
       => (ret' = Throws /\ sieve' = sieve)]_vars

\* C13: a getSieve call that grows the table from oldLength to newLength
\* completes and leaves every index of [oldLength, newLength) from 2 on
\* true iff it is prime, as a sieve from scratch would.
C13_GrowthAsFromScratch ==
    [][(call'.op = "getSieve" /\ Len(sieve') > Len(sieve))
       => /\ pc' = "ready"
          /\ \A i \in Len(sieve)..(Len(sieve') - 1) :
                i >= 2 => (sieve'[i + 1] <=> IsPrimeNumber(i))]_vars

C15_CoveredRequestIsNoOp ==
    [][/\ (/\ pc = "ready"
           /\ \/ call'.op = "getSieve" /\ Len(sieve) >= call'.num
              \/ call'.op = "isPrime" /\ Len(sieve) > call'.num)
          => (sieve' = sieve /\ pc' = "ready")
       /\ (/\ pc = "ready" /\ call.op = "getSieve" /\ ret.kind = "array"
           /\ call'.op = "getSieve" /\ call'.num = call.num)
          => (ret' = ret /\ sieve' = sieve)]_vars

\* C15's case: a getSieve the table already covered has returned.
C15_Witness ==
    call.op = "getSieve" /\ ret.kind = "array" /\ Len(sieve) >= call.num

\* max(p*p, the smallest multiple of p that is >= oldLength)
FirstMultiple(p, oldLength) ==
    LET m == ((oldLength + p - 1) \div p) * p
    IN IF p * p > m THEN p * p ELSE m

\* C16: in the pass of an extension from oldLength to newLength every write
\* targets an index of [oldLength, newLength), and for each prime p the first
\* multiple written is max(p*p, smallest multiple of p >= oldLength) when
\* that is below newLength.
C16_WritesOnlyNewRange ==
    [][(pc = "ready" /\ call'.op = "getSieve" /\ Len(sieve') > Len(sieve))
       => LET oldLength == Len(sieve)
              newLength == Len(sieve')
              pushed == sieve \o freshSieve(newLength - oldLength)
              written == PassWrites(pushed, 0, newLength)
          IN /\ \A i \in written : oldLength <= i /\ i < newLength
             /\ \A p \in 2..newLength :
                   (IsPrimeNumber(p) /\ FirstMultiple(p, oldLength) < newLength)
                   => FirstMultiple(p, oldLength) \in written]_vars

\* C17: every call nearestPrime(n, min, max) with n >= 0 returns.
C17_NearestPrimeReturns ==
    (call.op = "nearestPrime" /\ call.num >= 0) => Returned

====
